---- MODULE Spec2Model ----
(***************************************************************************)
(* StegaCipher: LSB steganography service (server/services/steganography.ts)*)
(* and the two upload routes that call it (server/routes.ts).               *)
(*                                                                         *)
(* Strings are sequences of UTF-16 code units, buffers are sequences of    *)
(* bytes (TLA+ index o+1 is the code's offset o).  An image file is the    *)
(* record of what sharp decodes from it.                                   *)
(***************************************************************************)
EXTENDS Integers, Sequences, FiniteSets, TLC

\* ------------------------------------------------------------------ bounds
\* Longest short message the model enumerates, in characters.
MaxMsgLen == 2

\* ------------------------------------------------------- program constants
\* crypto.randomBytes(16): the length of the envelope's IV.
IVBytes == 16
\* The block length of 'aes-256-cbc'.
BlockBytes == 16

\* --------------------------------------------------------------- byte math
\* F applied to the value of e, with e evaluated once: v ranges over a
\* singleton.  The operators below bind their intermediate results with it
\* where the code binds a const.
Once(e, F(_)) == CHOOSE r \in {F(v) : v \in {e}} : TRUE

RECURSIVE Xor(_, _)
\* Bitwise exclusive or of two non-negative integers.
Xor(a, b) ==
  IF a = 0 THEN b
  ELSE IF b = 0 THEN a
  ELSE 2 * Xor(a \div 2, b \div 2) + ((a + b) % 2)

\* A sequence of n copies of x.
Repeat(x, n) == [i \in 1..n |-> x]

\* ------------------------------------------------------------------ UTF-8
\* Buffer.from(str, 'utf8') for one code unit below the surrogate range.
Utf8EncodeChar(cp) ==
  IF cp < 128 THEN <<cp>>
  ELSE IF cp < 2048 THEN <<192 + (cp \div 64), 128 + (cp % 64)>>
  ELSE <<224 + (cp \div 4096), 128 + ((cp \div 64) % 64), 128 + (cp % 64)>>

RECURSIVE Utf8EncodeRange(_, _, _)
\* The encodings of str[from..to], concatenated (the range is halved to
\* keep the evaluation shallow).
Utf8EncodeRange(str, from, to) ==
  IF from > to THEN <<>>
  ELSE IF from = to THEN Utf8EncodeChar(str[from])
  ELSE Utf8EncodeRange(str, from, (from + to) \div 2)
         \o Utf8EncodeRange(str, (from + to) \div 2 + 1, to)

\* Buffer.from(str, 'utf8')
Utf8Encode(str) == Once(str, LAMBDA s : Utf8EncodeRange(s, 1, Len(s)))

IsCont(b) == b >= 128 /\ b < 192

\* U+FFFD, what toString('utf8') yields for an ill-formed sequence.
Replacement == 65533

\* One decoding step of buf.toString('utf8') at index i: the code unit
\* produced and the number of bytes consumed.  Sequences of four bytes
\* (code points above U+FFFF) are outside the alphabet of the model.
Utf8Step(bytes, i) ==
  LET b0 == bytes[i]
      n  == Len(bytes)
      b1 == IF i + 1 <= n THEN bytes[i + 1] ELSE 0
      b2 == IF i + 2 <= n THEN bytes[i + 2] ELSE 0
      ok1 == IsCont(b1)
            /\ (b0 = 224 => b1 >= 160)
            /\ (b0 = 237 => b1 < 160)
  IN  IF b0 < 128 THEN [cp |-> b0, used |-> 1]
      ELSE IF b0 >= 194 /\ b0 < 224
        THEN IF IsCont(b1)
               THEN [cp |-> (b0 - 192) * 64 + (b1 - 128), used |-> 2]
               ELSE [cp |-> Replacement, used |-> 1]
      ELSE IF b0 >= 224 /\ b0 < 240
        THEN IF ok1 /\ IsCont(b2)
               THEN [cp |-> (b0 - 224) * 4096 + (b1 - 128) * 64 + (b2 - 128),
                     used |-> 3]
               ELSE IF ok1 THEN [cp |-> Replacement, used |-> 2]
               ELSE [cp |-> Replacement, used |-> 1]
      ELSE [cp |-> Replacement, used |-> 1]

\* Whether the decoder starts a step at index i.  A byte that is no
\* continuation byte always starts one; a continuation byte starts one
\* (and is replaced) unless the lead byte one or two places before it
\* consumed it.
Utf8Start(bytes, i) ==
  \/ ~IsCont(bytes[i])
  \/ ~ \/ i > 1 /\ ~IsCont(bytes[i - 1]) /\ Utf8Step(bytes, i - 1).used >= 2
       \/ i > 2 /\ ~IsCont(bytes[i - 2]) /\ Utf8Step(bytes, i - 2).used = 3

\* The k-th smallest element of a set of integers.
Nth(S, k) == CHOOSE i \in S : Cardinality({j \in S : j <= i}) = k

\* The code units of the steps, in the order of their start indices.
Utf8DecodeAt(bytes, starts) ==
  [k \in 1..Cardinality(starts) |-> Utf8Step(bytes, Nth(starts, k)).cp]

\* buf.toString('utf8')
Utf8Decode(bytes) ==
  Once(bytes, LAMBDA b :
    Once({i \in 1..Len(b) : Utf8Start(b, i)}, LAMBDA starts :
      Utf8DecodeAt(b, starts)))

\* -------------------------------------------------------------------- hex
\* One lower-case hex digit, as a character code.
HexDigit(n) == IF n < 10 THEN 48 + n ELSE 87 + n

\* buf.toString('hex'): two digits per byte, the high one first.
HexEncode(bytes) ==
  Once(bytes, LAMBDA b :
    [i \in 1..(2 * Len(b)) |->
       IF i % 2 = 1 THEN HexDigit(b[(i + 1) \div 2] \div 16)
       ELSE HexDigit(b[i \div 2] % 16)])

\* The value of a hex digit character, -1 for any other character.
HexValue(c) ==
  IF c >= 48 /\ c <= 57 THEN c - 48
  ELSE IF c >= 97 /\ c <= 102 THEN c - 87
  ELSE IF c >= 65 /\ c <= 70 THEN c - 55
  ELSE -1

\* The number of leading pairs of hex digits of str.
HexPairs(str) ==
  Cardinality({n \in 1..(Len(str) \div 2) :
                 \A i \in 1..(2 * n) : HexValue(str[i]) >= 0})

\* Buffer.from(str, 'hex') and the 'hex' input encoding of decipher.update:
\* whole pairs of hex digits up to the first character that is none; a
\* trailing single digit is dropped.
HexDecode(str) ==
  Once(str, LAMBDA s :
    Once(HexPairs(s), LAMBDA n :
      [j \in 1..n |-> HexValue(s[2 * j - 1]) * 16 + HexValue(s[2 * j])]))

\* ----------------------------------------------------------------- cipher
\* AES-256 and SHA-256 are modelled by small stand-ins with the properties
\* the service relies on: the digest is a deterministic function of the key,
\* the block transform is a keyed permutation of the blocks, chained as CBC
\* with PKCS#7 padding.

RECURSIVE DigestFrom(_, _, _)
DigestFrom(bytes, i, h) ==
  IF i > Len(bytes) THEN h
  ELSE DigestFrom(bytes, i + 1, (h * 31 + bytes[i] + 7) % 256)

\* crypto.createHash('sha256').update(key).digest()
Sha256(key) == Once(Utf8Encode(key), LAMBDA b : DigestFrom(b, 1, 99))

\* The cipher context for a derived secret.
CipherContext(secret) ==
  [key |-> (secret * 7 + 1) % 256,
   iv  |-> [i \in 1..BlockBytes |-> (secret * 3 + 13 * i) % 256]]

\* crypto.createCipher(algorithm, password) / crypto.createDecipher(...):
\* the cipher key AND the IV are both derived from the password alone
\* (OpenSSL EVP_BytesToKey); no IV argument exists.
CreateCipher(password) == Once(password, LAMBDA secret : CipherContext(secret))

\* The keyed permutation of one byte at position i of a block, and its inverse
\* (5 * 205 = 1 modulo 256).
EncByte(k, i, x) == (5 * x + k * (2 * i + 1) + 3) % 256
DecByte(k, i, y) == (205 * (y + 256 * 600 - k * (2 * i + 1) - 3)) % 256

\* One block of CBC: chain with the previous cipher block, then transform.
EncBlock(k, prev, blk) ==
  [i \in 1..BlockBytes |-> Once(Xor(blk[i], prev[i]), LAMBDA x : EncByte(k, i, x))]
DecBlock(k, prev, blk) ==
  [i \in 1..BlockBytes |-> Once(DecByte(k, i, blk[i]), LAMBDA x : Xor(x, prev[i]))]

\* PKCS#7: 1..BlockBytes bytes, each holding the number of bytes added.
Pkcs7Pad(bytes) ==
  Once(bytes, LAMBDA b :
    Once(BlockBytes - (Len(b) % BlockBytes), LAMBDA n : b \o Repeat(n, n)))

RECURSIVE CbcEncrypt(_, _, _, _)
\* bytes from block number j on, prev being the previous cipher block.
CbcEncrypt(k, prev, bytes, j) ==
  IF j * BlockBytes >= Len(bytes) THEN <<>>
  ELSE Once(EncBlock(k, prev,
                     SubSeq(bytes, j * BlockBytes + 1, (j + 1) * BlockBytes)),
            LAMBDA c : c \o CbcEncrypt(k, c, bytes, j + 1))

RECURSIVE CbcDecrypt(_, _, _, _)
CbcDecrypt(k, prev, bytes, j) ==
  IF j * BlockBytes >= Len(bytes) THEN <<>>
  ELSE Once(SubSeq(bytes, j * BlockBytes + 1, (j + 1) * BlockBytes),
            LAMBDA c : DecBlock(k, prev, c) \o CbcDecrypt(k, c, bytes, j + 1))

\* cipher.update(message, 'utf8', 'hex') + cipher.final('hex')
CipherRun(ctx, message) ==
  Once(Pkcs7Pad(Utf8Encode(message)),
       LAMBDA padded : HexEncode(CbcEncrypt(ctx.key, ctx.iv, padded, 0)))

\* The messages of the errors that the crypto calls of decryptMessage throw.
ErrInvalidArgType == "The \"data\" argument must be of type string"
ErrWrongFinalBlockLength == "wrong final block length"
ErrBadDecrypt == "bad decrypt"

\* decipher.final(): the padding of the decrypted blocks is checked and
\* removed.
DecipherFinal(plain) ==
  LET n == plain[Len(plain)]
  IN  IF n < 1 \/ n > BlockBytes
         \/ \E j \in (Len(plain) - n + 1)..Len(plain) : plain[j] # n
        THEN [ok |-> FALSE, value |-> <<>>, msg |-> ErrBadDecrypt]
        ELSE [ok |-> TRUE,
              value |-> Utf8Decode(SubSeq(plain, 1, Len(plain) - n)),
              msg |-> ""]

\* decipher.update(encrypted, 'hex', 'utf8') + decipher.final('utf8').
\* parts is the array that split(':') returned; encrypted is its second
\* element, undefined when there is none.
DecipherRun(ctx, parts) ==
  IF Len(parts) < 2 THEN [ok |-> FALSE, value |-> <<>>, msg |-> ErrInvalidArgType]
  ELSE Once(HexDecode(parts[2]), LAMBDA data :
         IF data = <<>> \/ Len(data) % BlockBytes # 0
           THEN [ok |-> FALSE, value |-> <<>>, msg |-> ErrWrongFinalBlockLength]
           ELSE Once(CbcDecrypt(ctx.key, ctx.iv, data, 0),
                     LAMBDA plain : DecipherFinal(plain)))

\* The parts of str between the separators at the indices seps.
SplitAt(str, seps) ==
  [k \in 1..(Cardinality(seps) + 1) |->
     SubSeq(str,
            IF k = 1 THEN 1 ELSE Nth(seps, k - 1) + 1,
            IF k = Cardinality(seps) + 1 THEN Len(str) ELSE Nth(seps, k) - 1)]

\* str.split(':')
Split(str) ==
  Once(str, LAMBDA s :
    Once({i \in 1..Len(s) : s[i] = 58}, LAMBDA seps : SplitAt(s, seps)))

\* encryptMessage(message, key); iv is what crypto.randomBytes(16) returned.
\* cipherIv records the IV the cipher context ran with.
EncryptMessage(message, key, iv) ==
  Once(CreateCipher(Sha256(key)), LAMBDA cipher :
    [envelope |-> HexEncode(iv) \o <<58>> \o CipherRun(cipher, message),
     cipherIv |-> cipher.iv])

\* decryptMessage(encryptedMessage, key).  iv is the parsed IV (a local that
\* nothing reads), cipherIv the IV the decipher context ran with.
DecryptMessage(encryptedMessage, key) ==
  Once(CreateCipher(Sha256(key)), LAMBDA decipher :
    Once(Split(encryptedMessage), LAMBDA parts :
      Once(DecipherRun(decipher, parts), LAMBDA r :
        [ok |-> r.ok, value |-> r.value, msg |-> r.msg,
         iv |-> HexDecode(parts[1]), cipherIv |-> decipher.iv])))

\* ------------------------------------------------------------------ sharp
\* An image file is [valid, width, height, channels, pixels]: what sharp
\* decodes from it.  A file that is no image has valid = FALSE.
NoImage == [valid |-> FALSE, width |-> 0, height |-> 0, channels |-> 4,
            pixels |-> <<>>]

\* ensureAlpha() on three-channel pixels: an opaque alpha byte after each
\* R, G, B triple.
EnsureAlpha(pixels) ==
  [i \in 1..((Len(pixels) \div 3) * 4) |->
     IF i % 4 = 0 THEN 255 ELSE pixels[3 * ((i - 1) \div 4) + ((i - 1) % 4) + 1]]

\* sharp(imageBuffer).ensureAlpha().raw().toBuffer({resolveWithObject: true})
SharpRaw(imageBuffer) ==
  [data |-> IF imageBuffer.channels = 4 THEN imageBuffer.pixels
            ELSE EnsureAlpha(imageBuffer.pixels),
   info |-> [width |-> imageBuffer.width, height |-> imageBuffer.height,
             channels |-> 4]]

\* sharp(modifiedData, {raw: {width, height, channels: 4}}).png().toBuffer()
SharpPng(modifiedData, width, height) ==
  [valid |-> TRUE, width |-> width, height |-> height, channels |-> 4,
   pixels |-> modifiedData]

ErrUnsupportedImage == "Input buffer contains unsupported image format"

\* ---------------------------------------------------------------- buffers
\* Buffers live in a heap (a sequence of byte sequences) and are named by
\* their index in it, so that a copy and an alias are different things.

\* BufferFrom without the copy: the same buffer under a second name.
BufferFromAlias(heap, ref) == [heap |-> heap, ref |-> ref]

\* Buffer.from(buffer): a new buffer holding a copy of the bytes.
BufferFrom(heap, ref) ==
  [heap |-> Append(heap, heap[ref]), ref |-> Len(heap) + 1]

\* buf[offset] = value; a write outside the buffer is ignored.
BufferSet(heap, ref, offset, value) ==
  IF offset + 1 \in 1..Len(heap[ref])
    THEN [heap EXCEPT ![ref][offset + 1] = value]
    ELSE heap

\* buf[offset]; undefined outside the buffer, which the bit operators of
\* the callers turn into 0.
BufferGet(buf, offset) ==
  IF offset + 1 \in 1..Len(buf) THEN buf[offset + 1] ELSE 0

\* ----------------------------------------------------------- encodeMessage
\* An optional string argument: present = FALSE is undefined.
Undefined == [present |-> FALSE, str |-> <<>>]
Str(s) == [present |-> TRUE, str |-> s]
\* JavaScript truthiness of an optional string.
Truthy(s) == s.present /\ s.str # <<>>

NoError == [stage |-> "", msg |-> "", maxBytes |-> 0, requiredBytes |-> 0]
ErrMessageTooLarge == "Message too large"

\* MaxCapacity counting the alpha byte of each pixel as well.
MaxCapacityAllChannels(data) == Len(data)

\* Math.floor((data.length / 4) * 3)
MaxCapacity(data) == (Len(data) * 3) \div 4

\* PixelIndex without the step over the alpha byte.
PixelIndexNoSkip(bitIndex) == bitIndex

\* Math.floor(bitIndex / 3) * 4 + (bitIndex % 3)
PixelIndex(bitIndex) == (bitIndex \div 3) * 4 + (bitIndex % 3)

\* MessageBit with the bits of a byte taken lowest first: (byte >> bit) & 1.
MessageBitLsbFirst(byte, bit) == (byte \div (2 ^ bit)) % 2

\* (byte >> (7 - bit)) & 1
MessageBit(byte, bit) == (byte \div (2 ^ (7 - bit))) % 2

\* (modifiedData[pixelIndex] & 0xFE) | messageBit
SetLsb(x, messageBit) == x - (x % 2) + messageBit

\* One pass of the inner loop body: bit number bitIndex of the message
\* (bit bitIndex % 8 of byte bitIndex \div 8) is written to modifiedData.
EncodeBit(heap, modifiedData, messageBytes, bitIndex) ==
  LET byteIndex  == bitIndex \div 8
      bit        == bitIndex % 8
      byte       == messageBytes[byteIndex + 1]
      messageBit == MessageBit(byte, bit)
      pixelIndex == PixelIndex(bitIndex)
      old        == BufferGet(heap[modifiedData], pixelIndex)
  IN  BufferSet(heap, modifiedData, pixelIndex, SetLsb(old, messageBit))

RECURSIVE EncodeLoop(_, _, _, _, _)
\* The two nested loops, for the bit indices from..to-1 in increasing
\* order.  The range is halved only to keep the evaluation of a long loop
\* shallow; h is the heap the range starts from.
EncodeLoop(heap, modifiedData, messageBytes, from, to) ==
  Once(heap, LAMBDA h :
    IF from >= to THEN h
    ELSE IF to = from + 1 THEN EncodeBit(h, modifiedData, messageBytes, from)
    ELSE EncodeLoop(EncodeLoop(h, modifiedData, messageBytes,
                               from, (from + to) \div 2),
                    modifiedData, messageBytes, (from + to) \div 2, to))

\* FitsCapacity refusing a message that fills the image exactly.
FitsCapacityStrict(requiredBits, maxCapacity) == requiredBits < maxCapacity

\* The capacity check of encodeMessage.
FitsCapacity(requiredBits, maxCapacity) == ~(requiredBits > maxCapacity)

\* What encodeMessage returns (png, the file made from modifiedData) or
\* throws (error), with the framed bytes, the IV its cipher ran with, and
\* what the call left in data, the buffer sharp decoded the input into.
EncodeResult ==
  [ok |-> FALSE, png |-> NoImage, error |-> NoError, encrypted |-> FALSE,
   cipherIv |-> <<>>, messageBytes |-> <<>>, data |-> <<>>]

\* Lines 14-22: the optional encryption and the framing.  The envelope,
\* the IV the cipher ran with, and the framed bytes.
FrameMessage(message, encryptionKey, iv) ==
  Once(IF Truthy(encryptionKey)
         THEN EncryptMessage(message, encryptionKey.str, iv)
         ELSE [envelope |-> message, cipherIv |-> <<>>],
       LAMBDA enc :
         [cipherIv |-> enc.cipherIv,
          messageBytes |-> Utf8Encode(enc.envelope \o <<0>>)])

\* Lines 30-67 for the decoded image raw and the framed message.
EncodeInto(raw, framed, base) ==
  LET messageBytes == framed.messageBytes
      heap0 == <<raw.data>>
      maxCapacity == MaxCapacity(raw.data)
      requiredBits == Len(messageBytes) * 8
  IN  IF ~FitsCapacity(requiredBits, maxCapacity)
        THEN [base EXCEPT !.data = heap0[1], !.error =
                 [stage |-> "Encoding failed", msg |-> ErrMessageTooLarge,
                  maxBytes |-> maxCapacity \div 8,
                  requiredBytes |-> Len(messageBytes)]]
      ELSE Once(BufferFrom(heap0, 1), LAMBDA copy :
             Once(EncodeLoop(copy.heap, copy.ref, messageBytes, 0, requiredBits),
                  LAMBDA heap1 :
                    [base EXCEPT !.ok = TRUE, !.data = heap1[1],
                                 !.png = SharpPng(heap1[copy.ref],
                                                  raw.info.width,
                                                  raw.info.height)]))

\* encodeMessage(imageBuffer, message, encryptionKey); iv is what
\* crypto.randomBytes returns when the message is encrypted.
EncodeMessage(imageBuffer, message, encryptionKey, iv) ==
  Once(FrameMessage(message, encryptionKey, iv), LAMBDA framed :
    Once([EncodeResult EXCEPT !.encrypted = Truthy(encryptionKey),
                              !.cipherIv = framed.cipherIv,
                              !.messageBytes = framed.messageBytes],
         LAMBDA base :
           IF ~imageBuffer.valid
             THEN [base EXCEPT !.error = [NoError EXCEPT
                     !.stage = "Encoding failed", !.msg = ErrUnsupportedImage]]
             ELSE Once(SharpRaw(imageBuffer),
                       LAMBDA raw : EncodeInto(raw, framed, base))))

\* ----------------------------------------------------------- decodeMessage
ErrNoMessage == "No message found or message delimiter not detected"

\* ReadOffset without the step over the alpha byte.
ReadOffsetNoSkip(k) == k

\* The offset the scan reads its k-th bit from: pixelIndex advances by 4
\* per pixel, channel runs over 0, 1, 2.
ReadOffset(k) == 4 * (k \div 3) + (k % 3)

\* ReadByte with the first bit read put lowest: currentByte | (lsb << n).
ReadByteLsbFirst(data, j) ==
  LET lsb(b) == BufferGet(data, ReadOffset(8 * j + b)) % 2
  IN  lsb(0) + 2 * lsb(1) + 4 * lsb(2) + 8 * lsb(3)
        + 16 * lsb(4) + 32 * lsb(5) + 64 * lsb(6) + 128 * lsb(7)

\* The j-th byte the scan completes: eight LSBs, the first one highest.
ReadByte(data, j) ==
  LET lsb(b) == BufferGet(data, ReadOffset(8 * j + b)) % 2
  IN  128 * lsb(0) + 64 * lsb(1) + 32 * lsb(2) + 16 * lsb(3)
        + 8 * lsb(4) + 4 * lsb(5) + 2 * lsb(6) + lsb(7)

\* The number of bytes the scan completes before the buffer ends: three
\* bits per pixel started.
CompleteBytes(data) == (((Len(data) + 3) \div 4) * 3) \div 8

\* DecodeLoop that goes on to the last zero byte instead of stopping at
\* the first.
DecodeLoopLastZero(data) ==
  Once({j \in 0..(CompleteBytes(data) - 1) : ReadByte(data, j) = 0},
       LAMBDA zeros :
         IF zeros = {}
           THEN [found |-> FALSE,
                 messageBytes |-> [j \in 1..CompleteBytes(data) |->
                                     ReadByte(data, j - 1)]]
           ELSE [found |-> TRUE,
                 messageBytes |-> [j \in 1..(Nth(zeros, Cardinality(zeros)) + 1)
                                     |-> ReadByte(data, j - 1)]])

\* The scan: it completes the bytes 0, 1, ... in order and stops at the
\* first that is zero.  The bytes collected up to and including that byte
\* (found), or all complete bytes.
DecodeLoop(data) ==
  Once({j \in 0..(CompleteBytes(data) - 1) : ReadByte(data, j) = 0},
       LAMBDA zeros :
         IF zeros = {}
           THEN [found |-> FALSE,
                 messageBytes |-> [j \in 1..CompleteBytes(data) |->
                                     ReadByte(data, j - 1)]]
           ELSE [found |-> TRUE,
                 messageBytes |-> [j \in 1..(Nth(zeros, 1) + 1) |->
                                     ReadByte(data, j - 1)]])

\* What decodeMessage returns or throws; payload is the bytes in front of
\* the terminator, iv and cipherIv what decryptMessage parsed and used.
DecodeResult ==
  [ok |-> FALSE, value |-> <<>>, error |-> NoError, decrypted |-> FALSE,
   iv |-> <<>>, cipherIv |-> <<>>, payload |-> <<>>]

DecodeFail(m) == [NoError EXCEPT !.stage = "Decoding failed", !.msg = m]

\* Lines 107-118: the terminator was found after messageBuffer.
DecodeFound(messageBuffer, decryptionKey) ==
  Once(Utf8Decode(messageBuffer), LAMBDA decodedMessage :
    IF ~Truthy(decryptionKey)
      THEN [DecodeResult EXCEPT !.ok = TRUE, !.value = decodedMessage,
                                !.payload = messageBuffer]
      ELSE Once(DecryptMessage(decodedMessage, decryptionKey.str), LAMBDA d :
             [DecodeResult EXCEPT
                !.ok = d.ok, !.value = d.value,
                !.error = IF d.ok THEN NoError ELSE DecodeFail(d.msg),
                !.decrypted = TRUE, !.iv = d.iv, !.cipherIv = d.cipherIv,
                !.payload = messageBuffer]))

\* decodeMessage(imageBuffer, decryptionKey)
DecodeMessage(imageBuffer, decryptionKey) ==
  IF ~imageBuffer.valid
    THEN [DecodeResult EXCEPT !.error = DecodeFail(ErrUnsupportedImage)]
  ELSE Once(SharpRaw(imageBuffer).data, LAMBDA data :
         Once(DecodeLoop(data), LAMBDA scan :
           IF ~scan.found
             THEN [DecodeResult EXCEPT !.error = DecodeFail(ErrNoMessage)]
             ELSE DecodeFound(SubSeq(scan.messageBytes, 1,
                                     Len(scan.messageBytes) - 1),
                              decryptionKey)))

\* calculateCapacity(imageBuffer): sharp(imageBuffer).toBuffer() keeps the
\* file's own channels; only info.width and info.height are read.
CalculateCapacity(imageBuffer) ==
  LET totalPixels == imageBuffer.width * imageBuffer.height
      maxBits == totalPixels * 3
  IN  maxBits \div 8

\* ----------------------------------------------------------------- routes
\* The uploads directory is the set of paths that exist in it: UploadPath
\* is req.file.path (written by multer before the handler runs),
\* EncodedPath is encodedFilePath.  The database is the set of filePath
\* values of the encoded_images rows.
UploadPath == "upload"
EncodedPath == "encoded"

NoFile == [present |-> FALSE, image |-> NoImage]
File(img) == [present |-> TRUE, image |-> img]

\* What upload.single('image') leaves on disk before the handler runs.
Multer(files, file) == IF file.present THEN files \cup {UploadPath} ELSE files

\* The early return of POST /api/encode for a request without a message.
EncodeNoMessage(files, db) ==
  [files |-> files, db |-> db, status |-> 400, message |-> "No message provided"]

\* The catch block of both routes: unlink req.file.path when it exists.
CatchCleanup(files, db, message) ==
  [files |-> files \ {UploadPath}, db |-> db, status |-> 500, message |-> message]

\* What the handler of POST /api/encode does after encodeMessage returned
\* encoded: write the encoded file, insert the row (storageOk = FALSE:
\* insertEncodedImageSchema.parse or storage.createEncodedImage throws),
\* unlink the upload, answer.
EncodeStore(files, db, storageOk) ==
  LET written == files \cup {EncodedPath}
  IN  IF ~storageOk THEN CatchCleanup(written, db, "storage error")
      ELSE [files |-> written \ {UploadPath}, db |-> db \cup {EncodedPath},
            status |-> 200, message |-> "Image encoded successfully"]

\* app.post('/api/encode', ...), the handler after isAuthenticated and multer.
PostEncodeHandler(files, db, file, message, encryptionKey, iv, storageOk) ==
  LET encoded == EncodeMessage(file.image, message.str,
                               IF Truthy(encryptionKey) THEN encryptionKey
                               ELSE Undefined, iv)
  IN  IF ~file.present
        THEN [files |-> files, db |-> db, status |-> 400,
              message |-> "No image file provided"]
      ELSE IF ~Truthy(message) THEN EncodeNoMessage(files, db)
      ELSE IF ~encoded.ok THEN CatchCleanup(files, db, encoded.error.msg)
      ELSE EncodeStore(files, db, storageOk)

\* app.post('/api/decode', ...), the handler after isAuthenticated and multer.
PostDecodeHandler(files, db, file, decryptionKey) ==
  LET decoded == DecodeMessage(file.image,
                               IF Truthy(decryptionKey) THEN decryptionKey
                               ELSE Undefined)
  IN  IF ~file.present
        THEN [files |-> files, db |-> db, status |-> 400,
              message |-> "No image file provided"]
      ELSE IF ~decoded.ok THEN CatchCleanup(files, db, decoded.error.msg)
      ELSE [files |-> files \ {UploadPath}, db |-> db, status |-> 200,
            message |-> "decoded"]

\* ----------------------------------------------------------------- inputs
\* The bytes of an image file of n bytes, by pattern.
Pixels(pattern, n) ==
  [i \in 1..n |->
     CASE pattern = "zero"  -> 0
       [] pattern = "white" -> 255
       [] pattern = "ramp"  -> (i - 1) % 256
       [] pattern = "speck" -> IF i = 2 THEN 1 ELSE 0]

Image(width, height, channels, pattern) ==
  [valid |-> TRUE, width |-> width, height |-> height, channels |-> channels,
   pixels |-> Pixels(pattern, width * height * channels)]

\* An uploaded file that sharp cannot decode.
Corrupt == NoImage

\* 2x1 holds no byte, 2x4 three bytes, 10x10 is the 37-byte image, 25x7 is
\* one pixel short of an envelope of one cipher block, 16x11 holds exactly
\* one.
Dims == {<<2, 1>>, <<2, 4>>, <<10, 10>>, <<25, 7>>, <<16, 11>>}

Images ==
  {Image(d[1], d[2], 4, "ramp") : d \in Dims}
    \cup {Image(2, 4, 4, "zero"), Image(10, 10, 4, "zero"),
          Image(2, 4, 3, "ramp"), Image(2, 4, 4, "white"),
          Image(2, 4, 4, "speck"), Image(10, 10, 3, "zero")}

Uploads == {Image(2, 4, 4, "ramp"), Image(2, 4, 4, "zero"),
            Image(16, 11, 4, "ramp"), Corrupt}

\* NUL, 'h', 'i', e-acute (two bytes in UTF-8).
Alphabet == {0, 104, 105, 233}

RECURSIVE StringsUpTo(_)
StringsUpTo(n) ==
  IF n = 0 THEN {<<>>}
  ELSE LET shorter == StringsUpTo(n - 1)
       IN  shorter \cup {Append(s, c) : s \in shorter, c \in Alphabet}

\* Short messages over the alphabet, and messages of 36, 37 and 40 bytes
\* around the capacity of the 10x10 image.
Messages == StringsUpTo(MaxMsgLen) \cup {Repeat(104, n) : n \in {36, 37, 40}}

Keys == {Undefined, Str(<<>>), Str(<<107, 49>>), Str(<<107, 50>>)}

\* Values of crypto.randomBytes(16).
IVs == {Repeat(165, IVBytes), [i \in 1..IVBytes |-> 16 * i - 1]}

\* ------------------------------------------------------------------ state
VARIABLES
  pc,     \* "idle", "encoded", "decoded", "capacity", "responded"
  enc,    \* the last encodeMessage call: its arguments and its outcome
  dec,    \* the last decodeMessage call: its arguments and its outcome
  cap,    \* the last calculateCapacity call: its result
  files,  \* the paths that exist in the uploads directory
  db,     \* the filePath of each encoded_images row
  res     \* the response of the last request

vars == <<pc, enc, dec, cap, files, db, res>>

NoEnc == [called |-> FALSE, image |-> NoImage, message |-> <<>>,
          key |-> Undefined, iv |-> <<>>, r |-> EncodeResult]
NoDec == [called |-> FALSE, source |-> "", image |-> NoImage, key |-> Undefined,
          r |-> DecodeResult]
NoRes == [route |-> "", uploaded |-> FALSE, status |-> 0, message |-> ""]

Init ==
  /\ pc = "idle"
  /\ enc = NoEnc
  /\ dec = NoDec
  /\ cap = -1
  /\ files = {}
  /\ db = {}
  /\ res = NoRes

\* A call of SteganographyService.encodeMessage; crypto.randomBytes is
\* called, and iv is its value, only when a key is given.
Encode(img, m, k, iv) ==
  /\ pc = "idle"
  /\ Truthy(k) <=> iv # <<>>
  /\ pc' = "encoded"
  /\ enc' = [called |-> TRUE, image |-> img, message |-> m, key |-> k,
             iv |-> iv,
             r |-> EncodeMessage(img, m, k, iv)]
  /\ UNCHANGED <<dec, cap, files, db, res>>

\* A call of SteganographyService.decodeMessage on the image that
\* encodeMessage returned.
Decode(k) ==
  /\ pc = "encoded"
  /\ enc.r.ok
  /\ pc' = "decoded"
  /\ dec' = [called |-> TRUE, source |-> "encoded", image |-> enc.r.png,
             key |-> k, r |-> DecodeMessage(enc.r.png, k)]
  /\ UNCHANGED <<enc, cap, files, db, res>>

\* A call of SteganographyService.decodeMessage on an image that was never
\* encoded.
DecodeUnmodified(img, k) ==
  /\ pc = "idle"
  /\ pc' = "decoded"
  /\ dec' = [called |-> TRUE, source |-> "unmodified", image |-> img,
             key |-> k, r |-> DecodeMessage(img, k)]
  /\ UNCHANGED <<enc, cap, files, db, res>>

\* A call of SteganographyService.calculateCapacity on the image of the
\* last encodeMessage call.
Capacity ==
  /\ pc = "encoded"
  /\ pc' = "capacity"
  /\ cap' = CalculateCapacity(enc.image)
  /\ UNCHANGED <<enc, dec, files, db, res>>

\* A request POST /api/encode.
PostEncode(file, message, encryptionKey, iv, storageOk) ==
  /\ pc = "idle"
  /\ Truthy(encryptionKey) <=> iv # <<>>
  /\ pc' = "responded"
  /\ LET out == PostEncodeHandler(Multer(files, file), db, file, message,
                                  encryptionKey, iv, storageOk)
     IN  /\ files' = out.files
         /\ db' = out.db
         /\ res' = [route |-> "encode", uploaded |-> file.present,
                    status |-> out.status, message |-> out.message]
  /\ UNCHANGED <<enc, dec, cap>>

\* A request POST /api/decode.
PostDecode(file, decryptionKey) ==
  /\ pc = "idle"
  /\ pc' = "responded"
  /\ LET out == PostDecodeHandler(Multer(files, file), db, file, decryptionKey)
     IN  /\ files' = out.files
         /\ db' = out.db
         /\ res' = [route |-> "decode", uploaded |-> file.present,
                    status |-> out.status, message |-> out.message]
  /\ UNCHANGED <<enc, dec, cap>>

Next ==
  \/ \E img \in Images, m \in Messages, k \in Keys, iv \in IVs \cup {<<>>} :
       Encode(img, m, k, iv)
  \/ \E k \in Keys : Decode(k)
  \/ \E img \in Images, k \in Keys : DecodeUnmodified(img, k)
  \/ Capacity
  \/ \E file \in {NoFile} \cup {File(u) : u \in Uploads},
        message \in {Undefined} \cup {Str(m) : m \in StringsUpTo(1)},
        k \in Keys, iv \in IVs \cup {<<>>}, storageOk \in BOOLEAN :
       PostEncode(file, message, k, iv, storageOk)
  \/ \E file \in {NoFile} \cup {File(u) : u \in Uploads}, k \in Keys :
       PostDecode(file, k)

Spec == Init /\ [][Next]_vars

\* ----------------------------------------------------------------- claims
PixelCount(img) == img.width * img.height
CapacityBits(img) == PixelCount(img) * 3

\* Bit k of the R, G, B least-significant-bit stream of an image file, and
\* byte j of that stream (first bit highest), read off the file's own
\* pixels.
StreamBit(img, k) == img.pixels[(k \div 3) * img.channels + (k % 3) + 1] % 2
StreamByte(img, j) ==
  128 * StreamBit(img, 8 * j) + 64 * StreamBit(img, 8 * j + 1)
    + 32 * StreamBit(img, 8 * j + 2) + 16 * StreamBit(img, 8 * j + 3)
    + 8 * StreamBit(img, 8 * j + 4) + 4 * StreamBit(img, 8 * j + 5)
    + 2 * StreamBit(img, 8 * j + 6) + StreamBit(img, 8 * j + 7)

\* The raw RGBA bytes of an image file: its pixels, with an opaque alpha
\* byte added to each pixel that has none.
RawBytes(img) ==
  [i \in 1..(PixelCount(img) * 4) |->
     IF img.channels = 4 THEN img.pixels[i]
     ELSE IF i % 4 = 0 THEN 255
     ELSE img.pixels[((i - 1) \div 4) * 3 + ((i - 1) % 4) + 1]]

HasNul(str) == \E i \in 1..Len(str) : str[i] = 0

SameKeyDecoded ==
  pc = "decoded" /\ dec.source = "encoded" /\ dec.key = enc.key

\* C1 as stated: whenever len(m)*8 + 8 <= capacityBits(image), encoding m
\* under any key choice succeeds and decoding the result under the same key
\* choice returns exactly m.
C1_RoundTripAsClaimed ==
  (enc.called /\ Len(Utf8Encode(enc.message)) * 8 + 8 <= CapacityBits(enc.image))
    => /\ enc.r.ok
       /\ SameKeyDecoded => dec.r.ok /\ dec.r.value = enc.message

\* C1 amended: whenever the framed bytes (the UTF-8 bytes of m, or of its
\* envelope when a non-empty key is given, plus the terminator) fit, that
\* is, 8 * their number <= capacityBits(image), encoding succeeds; and
\* decoding the result under the same key choice returns exactly m,
\* provided m holds no U+0000 when no key is used.
C1_RoundTrip ==
  /\ (enc.called /\ Len(enc.r.messageBytes) * 8 <= CapacityBits(enc.image))
       => enc.r.ok
  /\ (SameKeyDecoded /\ (Truthy(enc.key) \/ ~HasNul(enc.message)))
       => dec.r.ok /\ dec.r.value = enc.message

\* An encrypted two-character message came back under its key.
C1_Witness ==
  /\ SameKeyDecoded /\ Truthy(enc.key)
  /\ Len(enc.message) = 2 /\ HasNul(enc.message)
  /\ dec.r.ok /\ dec.r.value = enc.message

\* C2: encodeMessage succeeds exactly when requiredBits (8 * the framed
\* byte length) <= capacityBits (3 * pixelCount); otherwise it fails with
\* the capacity error that reports maxBytes = floor(capacityBits / 8) and
\* requiredBytes = the framed byte length, which without a key is the
\* message's UTF-8 length plus one.
C2_CapacityBoundary ==
  enc.called =>
    /\ enc.r.ok <=> (Len(enc.r.messageBytes) * 8 <= CapacityBits(enc.image))
    /\ ~Truthy(enc.key)
         => Len(enc.r.messageBytes) = Len(Utf8Encode(enc.message)) + 1
    /\ ~enc.r.ok =>
         /\ enc.r.error.stage = "Encoding failed"
         /\ enc.r.error.msg = ErrMessageTooLarge
         /\ enc.r.error.maxBytes = CapacityBits(enc.image) \div 8
         /\ enc.r.error.requiredBytes = Len(enc.r.messageBytes)

\* The 40-byte message in the 10x10 image: maxBytes 37, requiredBytes 41.
C2_Witness ==
  /\ enc.called /\ ~enc.r.ok
  /\ enc.image.width = 10 /\ enc.image.height = 10
  /\ Len(enc.message) = 40 /\ ~Truthy(enc.key)
  /\ enc.r.error.maxBytes = 37 /\ enc.r.error.requiredBytes = 41

UnmodifiedDecoded == pc = "decoded" /\ dec.source = "unmodified"

\* The complete bytes of the image's LSB stream hold no zero byte.
NoZeroByte(img) ==
  \A j \in 0..((CapacityBits(img) \div 8) - 1) : StreamByte(img, j) # 0

\* C3 as stated: decoding an image that was never encoded fails with
\* NoMessageFound, for every such image.
C3_UnmodifiedAlwaysFails ==
  UnmodifiedDecoded => ~dec.r.ok /\ dec.r.error.msg = ErrNoMessage

\* C3 amended: decoding an image that was never encoded fails with
\* NoMessageFound exactly when none of the floor(pixelCount*3/8) complete
\* bytes of its LSB stream is zero; when one is zero (an all-zero image)
\* and no key is given, a string is returned.
C3_UnmodifiedFailsIffNoZeroByte ==
  UnmodifiedDecoded =>
    /\ (~dec.r.ok /\ dec.r.error.msg = ErrNoMessage) <=> NoZeroByte(dec.image)
    /\ (~NoZeroByte(dec.image) /\ ~Truthy(dec.key)) => dec.r.ok

\* An image of at least one complete byte was scanned to its end.
C3_Witness ==
  /\ UnmodifiedDecoded /\ CapacityBits(dec.image) >= 8
  /\ ~dec.r.ok /\ dec.r.error.msg = ErrNoMessage

\* The offsets that the bits 0..requiredBits-1 of the framed message go to.
PayloadOffsets(requiredBits) ==
  {(i \div 3) * 4 + (i % 3) : i \in 0..(requiredBits - 1)}

\* C4: encodeMessage leaves the decoded input buffer as sharp returned it;
\* the buffer it returns equals the input at every offset except possibly
\* in bit 0 of the bytes at floor(i/3)*4 + i%3 for i < requiredBits; when
\* the capacity check fails, no buffer was written to.
C4_NonMutationAndFrame ==
  enc.called =>
    /\ enc.r.data = RawBytes(enc.image)
    /\ enc.r.ok =>
         LET payload == PayloadOffsets(Len(enc.r.messageBytes) * 8)
         IN  /\ Len(enc.r.png.pixels) = Len(enc.r.data)
             /\ \A o \in 0..(Len(enc.r.data) - 1) :
                  \/ enc.r.png.pixels[o + 1] = enc.r.data[o + 1]
                  \/ /\ o \in payload
                     /\ enc.r.png.pixels[o + 1] \div 2 = enc.r.data[o + 1] \div 2
    /\ ~enc.r.ok => enc.r.png = NoImage

\* A successful encode that changed a payload bit.
C4_Witness ==
  /\ enc.called /\ enc.r.ok
  /\ enc.r.png.pixels # enc.r.data
  /\ enc.r.data = RawBytes(enc.image)

\* C5: for every pixel p, the alpha byte at offset 4p+3 of the buffer that
\* encodeMessage produced equals the alpha byte at that offset of the input.
C5_AlphaPreserved ==
  (enc.called /\ enc.r.ok) =>
    \A p \in 0..(PixelCount(enc.image) - 1) :
      enc.r.png.pixels[4 * p + 3 + 1] = RawBytes(enc.image)[4 * p + 3 + 1]

\* A successful encode into an image whose alpha bytes differ from pixel
\* to pixel and whose payload covers more than one pixel.
C5_Witness ==
  /\ enc.called /\ enc.r.ok
  /\ Len(enc.r.messageBytes) >= 2
  /\ enc.image.channels = 4
  /\ enc.image.pixels[4] # enc.image.pixels[8]

\* C6 as stated: decryptMessage runs the cipher with the IV parsed from
\* the envelope, which is the IV encryptMessage ran the cipher with.
C6_IVThreaded ==
  (pc = "decoded" /\ dec.source = "encoded" /\ enc.r.encrypted
     /\ dec.r.decrypted)
    => /\ dec.r.iv = enc.iv
       /\ dec.r.cipherIv = dec.r.iv
       /\ enc.r.cipherIv = enc.iv

\* What decodeMessage reports for a wrong key.
WrongKeyError ==
  DecodeFail(DecryptMessage(
    EncryptMessage(<<104>>, <<107, 49>>, Repeat(165, IVBytes)).envelope,
    <<107, 50>>).msg)

\* decodeMessage ran decryptMessage on a payload that is no envelope made
\* under its key.
BadEnvelope ==
  /\ pc = "decoded" /\ dec.r.decrypted
  /\ \/ dec.source = "unmodified"
     \/ ~enc.r.encrypted
     \/ dec.key # enc.key

\* C7 as stated: with a key given, a malformed envelope or one made under
\* another key makes decodeMessage fail with a decoding error, and that
\* error is the same whether the key was wrong or the data corrupt.
C7_DecryptionFailureUniform ==
  BadEnvelope =>
    /\ ~dec.r.ok
    /\ dec.r.error.stage = "Decoding failed"
    /\ dec.r.error = WrongKeyError

\* C8: calculateCapacity returns floor(width*height*3/8); that is the
\* maxBytes encodeMessage reports on capacity failure for the same image,
\* and encodeMessage accepts a message exactly when its framed byte length
\* is at most that value.
C8_CapacityAgrees ==
  pc = "capacity" =>
    /\ cap = (enc.image.width * enc.image.height * 3) \div 8
    /\ ~enc.r.ok => enc.r.error.maxBytes = cap
    /\ enc.r.ok <=> Len(enc.r.messageBytes) <= cap

\* Capacity queried after a refused encode of a three-channel image.
C8_Witness ==
  /\ pc = "capacity" /\ ~enc.r.ok
  /\ enc.image.channels = 3
  /\ enc.r.error.maxBytes = cap /\ cap = 37

\* C9 as stated: encodeMessage refuses the empty message and never returns
\* an image that carries the terminator alone.
C9_EmptyMessageRejected ==
  /\ (enc.called /\ enc.message = <<>>) => ~enc.r.ok
  /\ (enc.called /\ enc.r.ok) => enc.r.messageBytes # <<0>>

\* C10 as stated: when a request that uploaded a file ends with status 400
\* or 500, the upload no longer exists, and no encoded file exists without
\* its database row.
C10_FailedRequestCleansUp ==
  (pc = "responded" /\ res.uploaded /\ res.status \in {400, 500})
    => /\ UploadPath \notin files
       /\ EncodedPath \in files => EncodedPath \in db

\* C11: for every bit index k < pixelCount*3 the scan of decodeMessage
\* reads its k-th bit from offset floor(k/3)*4 + k%3, the offset
\* encodeMessage writes bit k to, and never from an alpha offset; in the
\* image encodeMessage returns, bit k of the framed message (bits of a
\* byte highest first) is the low bit at that offset, the scan assembles
\* those bits back (first bit highest) into the framed bytes, and what
\* decodeMessage extracts from that image is a prefix of them.
C11_BitPositionSymmetry ==
  /\ (enc.called /\ enc.r.ok) =>
       LET out == enc.r.png.pixels
           mb  == enc.r.messageBytes
       IN  /\ \A k \in 0..(CapacityBits(enc.r.png) - 1) :
                /\ ReadOffset(k) = (k \div 3) * 4 + (k % 3)
                /\ ReadOffset(k) = PixelIndex(k)
                /\ ReadOffset(k) % 4 # 3
                /\ ReadOffset(k) < Len(out)
           /\ \A k \in 0..(8 * Len(mb) - 1) :
                out[PixelIndex(k) + 1] % 2
                  = (mb[(k \div 8) + 1] \div (2 ^ (7 - (k % 8)))) % 2
           /\ \A j \in 0..(Len(mb) - 1) : ReadByte(out, j) = mb[j + 1]
  /\ (pc = "decoded" /\ dec.source = "encoded") =>
       /\ Len(dec.r.payload) < Len(enc.r.messageBytes)
       /\ \A j \in 1..Len(dec.r.payload) :
            dec.r.payload[j] = enc.r.messageBytes[j]

\* "hi" (01101000 01101001) was written and read back bit for bit.
C11_Witness ==
  /\ pc = "decoded" /\ dec.source = "encoded"
  /\ enc.message = <<104, 105>> /\ ~Truthy(enc.key)
  /\ enc.r.messageBytes = <<104, 105, 0>>
  /\ dec.r.payload = <<104, 105>>

\* The bytes of the image's LSB stream in front of its first zero byte.
BytesBeforeFirstZero(img) ==
  LET zeros == {j \in 0..((CapacityBits(img) \div 8) - 1) :
                  StreamByte(img, j) = 0}
      first == CHOOSE j \in zeros : \A i \in zeros : j <= i
  IN  [i \in 1..first |-> StreamByte(img, i - 1)]

\* A sequence cut in front of its first zero; all of it when it has none.
BeforeFirstZero(bytes) ==
  LET zeros == {i \in 1..Len(bytes) : bytes[i] = 0}
      first == CHOOSE i \in zeros : \A j \in zeros : i <= j
  IN  IF zeros = {} THEN bytes ELSE SubSeq(bytes, 1, first - 1)

\* C12: decodeMessage fails with NoMessageFound exactly when none of the
\* floor(pixelCount*3/8) complete bytes of the LSB stream is zero;
\* otherwise its payload is exactly the bytes in front of the first zero
\* byte of the stream, which without a key it returns as a UTF-8 string;
\* for an image that encodeMessage returned, that payload is the framed
\* message cut at its first zero byte, so a message with a zero byte in
\* it comes back truncated there.
C12_StopsAtFirstTerminator ==
  (pc = "decoded" /\ dec.image.valid) =>
    /\ (~dec.r.ok /\ dec.r.error.msg = ErrNoMessage) <=> NoZeroByte(dec.image)
    /\ ~NoZeroByte(dec.image) =>
         /\ dec.r.payload = BytesBeforeFirstZero(dec.image)
         /\ ~Truthy(dec.key) =>
              dec.r.ok /\ dec.r.value = Utf8Decode(dec.r.payload)
    /\ dec.source = "encoded" =>
         /\ dec.r.payload = BeforeFirstZero(enc.r.messageBytes)
         /\ (~Truthy(enc.key) /\ ~Truthy(dec.key)) =>
              dec.r.value = BeforeFirstZero(enc.message)

\* The message <<104, 0>> ("h" and U+0000) came back as "h".
C12_Witness ==
  /\ pc = "decoded" /\ dec.source = "encoded"
  /\ ~Truthy(enc.key) /\ ~Truthy(dec.key)
  /\ enc.message = <<104, 0>>
  /\ dec.r.ok /\ dec.r.value = <<104>>

====
